---- MODULE Spec2Model ----
(***************************************************************************)
(* StockGraphix: the interactive MST correlation-network view of           *)
(* script.js (drawMSTGraph and its pointer handlers), and the search result *)
(* of searchStock with its price chart and its trading ticket.             *)
(*                                                                         *)
(* Numbers: JavaScript doubles are modelled as fixed-point integers.       *)
(* Coordinates are in tenths of a canvas pixel (Unit), angles and          *)
(* cos/sin values are in 1/TrigScale.                                      *)
(***************************************************************************)
EXTENDS Integers, Sequences, FiniteSets, Bags, TLC

\* ------------------------------------------------------------------ bounds
\* longest edge list enumerated over EdgePool
MaxEdges == 2
\* number of nodes of the large chain graph T1-T2-...-Tn
ChainNodes == 60
\* most calls of loadStockPriceChart that are in flight at a time
MaxLoads == 2

\* --------------------------------------------------------------- constants
\* JavaScript null (hoveredNode = null, foundNode = null)
null == "<null>"

\* canvas.width / canvas.height
CanvasWidth == 800
CanvasHeight == 500
\* the hit-test threshold of the mousemove handler
HitRadius == 20

\* fixed-point resolution of a coordinate: 1/Unit pixel
Unit == 10
\* fixed-point resolution of angles (radians) and of cos/sin values
TrigScale == 10000
\* Math.PI in 1/TrigScale
PiScaled == 31416
\* number of terms of the series that stands for Math.cos / Math.sin
TaylorTerms == 7

\* fixed-point resolution of corr and distance: 1/WeightScale; momentum is
\* in 1/(100 * WeightScale), so that momentum * 100 is in 1/WeightScale
WeightScale == 1000
\* what parseFloat yields for a blank or non-numeric cell
NaN == -1000000

\* fixed-point resolution of a price and of a quantity: 1/PriceScale
PriceScale == 100
\* const basePrice = 100
BasePrice == 100
\* priceData.slice(-130)
ChartDays == 130

\* ------------------------------------------------------------------ inputs
\* parseFloat(cell) || 0
ParseFloatOrZero(cell) == IF cell = NaN \/ cell = 0 THEN 0 ELSE cell

\* { u: row.u, v: row.v, corr: parseFloat(row.corr) || 0, distance: parseFloat(row.distance) || 0 }
Edge(u, v, corr, distance) ==
  [u |-> u, v |-> v, corr |-> ParseFloatOrZero(corr), distance |-> ParseFloatOrZero(distance)]

\* the rows an enumerated mst_edges.csv is made of: a pair, the same pair
\* reversed with distance 0, a self-loop with a blank distance cell, a
\* further pair with a weak correlation, and a row whose u and corr cells
\* are blank (parseCSV yields '' for a blank cell: values[index]?.trim() || '')
EdgePool ==
  { Edge("AAPL", "TCS.NS", 800, 300), Edge("TCS.NS", "AAPL", -600, 0),
    Edge("AAPL", "AAPL", 420, NaN), Edge("TCS.NS", "MSFT", 120, 1254),
    Edge("", "AAPL", NaN, 4) }

RECURSIVE SeqsUpTo(_, _)
SeqsUpTo(S, n) ==
  IF n = 0 THEN {<<>>}
  ELSE LET shorter == SeqsUpTo(S, n - 1)
       IN  shorter \cup {Append(s, e) : s \in {t \in shorter : Len(t) = n - 1}, e \in S}

ChainTicker(i) == "T" \o ToString(i)
ChainEdges ==
  [i \in 1..(ChainNodes - 1) |-> Edge(ChainTicker(i), ChainTicker(i + 1), 500, 707)]

\* the edge lists mst_edges.csv may hold: every list of at most MaxEdges
\* rows of EdgePool (duplicate rows included), and a chain
EdgeLists == SeqsUpTo(EdgePool, MaxEdges) \cup {ChainEdges}

\* { ticker: row.Ticker, momentum: parseFloat(row.momentum_mean) || 0, label: row.label }
Recommendation(ticker, momentum, label) ==
  [ticker |-> ticker, momentum |-> ParseFloatOrZero(momentum), label |-> label]

\* the tables recommendations.csv may hold: none, or rows with each label,
\* a label that is none of BUY, HOLD, AVOID, and a second row for a ticker
RecommendationTables ==
  { <<>>,
    << Recommendation("AAPL", 2000, "BUY"),
       Recommendation("TCS.NS", -3004, "AVOID"),
       Recommendation("T1", NaN, "HOLD"),
       Recommendation("T2", 150, "buy"),
       Recommendation("AAPL", -100, "AVOID") >> }

\* the files that are loaded together: every table with every short edge
\* list, the chain with the table that has rows
Datasets ==
  {d \in RecommendationTables \X EdgeLists : Len(d[2]) <= MaxEdges \/ Len(d[1]) > 0}

\* canvas.getBoundingClientRect(): left/top in 1/Unit px, width/height in px
Rects ==
  { [left |-> 0, top |-> 0, width |-> CanvasWidth, height |-> CanvasHeight],
    [left |-> 8 * Unit, top |-> 12 * Unit, width |-> CanvasWidth \div 2, height |-> CanvasHeight \div 2] }

VARIABLES
  hasPlaceholder,  \* whether document.querySelector('.graph-placeholder') finds an element
  pc,              \* "init", "loaded", "failed" (loadAllData threw), "ready" (view built),
                   \* "nograph" (drawMSTGraph returned early)
  mstEdges,        \* stockData.mstEdges
  recommendations, \* stockData.recommendations
  graphCanvas,     \* null or "canvas"
  graphCtx,        \* null, or the drawing state of the 2d context
  graphNodeList,   \* graphNodeList
  graphPositions,  \* graphPositions: node -> [x, y]
  hoveredNode,     \* hoveredNode
  handlers,        \* TRUE once the canvas listeners are installed
  canvasFrame,     \* what the canvas shows: null (never painted) or the frame of the last redrawGraph
  searchInput,     \* value of the #searchInput element
  lastEvent,       \* history: the handler that ran last and what it did
  resultDiv,       \* what the #result element holds, the #stockPriceChart canvas included
  trading,         \* the controls of #tradingInterface, NoForm when the element does not exist
  chartLoads,      \* the calls of loadStockPriceChart that wait at an await (a bag)
  stockPriceChart, \* the global stockPriceChart: NoChart for null, or the Chart last created
  alertShown       \* the alert() dialog that is open, NoAlert when none is

\* the variables of the search result
pageVars == <<resultDiv, trading, chartLoads, stockPriceChart, alertShown>>
\* the variables of the network view
graphVars == <<hasPlaceholder, pc, mstEdges, recommendations, graphCanvas, graphCtx,
               graphNodeList, graphPositions, hoveredNode, handlers, canvasFrame, lastEvent>>

vars == <<hasPlaceholder, pc, mstEdges, recommendations, graphCanvas, graphCtx, graphNodeList,
          graphPositions, hoveredNode, handlers, canvasFrame, searchInput, lastEvent,
          resultDiv, trading, chartLoads, stockPriceChart, alertShown>>

\* ----------------------------------------------------------------- helpers
Min(a, b) == IF a <= b THEN a ELSE b
Abs(a) == IF a < 0 THEN -a ELSE a
\* a / b rounded to the nearest integer (b > 0)
RoundDiv(a, b) == (2 * a + b) \div (2 * b)
Range(s) == {s[i] : i \in 1..Len(s)}

\* JavaScript truthiness of a string-or-null: null and '' are falsy
Truthy(v) == v # null /\ v # ""

\* ------------------------------------------------- Math.cos / Math.sin
RECURSIVE TaylorSum(_, _, _, _)
TaylorSum(term, x2, k, n) ==
  IF n = 0 \/ term = 0 THEN 0
  ELSE term + TaylorSum(-RoundDiv(RoundDiv(term * x2, TrigScale), k * (k + 1)), x2, k + 2, n - 1)

HalfPi == PiScaled \div 2
CosSeries(r) == TaylorSum(TrigScale, RoundDiv(r * r, TrigScale), 1, TaylorTerms)
SinSeries(r) == TaylorSum(r, RoundDiv(r * r, TrigScale), 2, TaylorTerms)

\* Math.cos(a), a in [0, 2*pi)
Cos(a) ==
  LET q == a \div HalfPi
      r == a % HalfPi
  IN  CASE q = 0 -> CosSeries(r)
        [] q = 1 -> -SinSeries(r)
        [] q = 2 -> -CosSeries(r)
        [] OTHER -> SinSeries(r)

\* Math.sin(a), a in [0, 2*pi)
Sin(a) ==
  LET q == a \div HalfPi
      r == a % HalfPi
  IN  CASE q = 0 -> SinSeries(r)
        [] q = 1 -> CosSeries(r)
        [] q = 2 -> -SinSeries(r)
        [] OTHER -> -CosSeries(r)

\* ------------------------------------------------------ node collection
\* mutant: an array push instead of Set.add
SetAddPush(list, x) == Append(list, x)

\* nodes.add(x) on a Set kept in insertion order
SetAdd(list, x) == IF x \in Range(list) THEN list ELSE Append(list, x)

\* mutant: only the u endpoint of an edge is collected
RECURSIVE CollectNodesSourcesOnly(_, _, _)
CollectNodesSourcesOnly(edges, i, nodes) ==
  IF i > Len(edges) THEN nodes
  ELSE LET added == SetAdd(nodes, edges[i].u)
       IN  IF Len(added) > 0 THEN CollectNodesSourcesOnly(edges, i + 1, added) ELSE added

\* const nodes = new Set(); mstEdges.forEach(e => { add(e.u); add(e.v) }); Array.from(nodes)
RECURSIVE CollectNodes(_, _, _)
CollectNodes(edges, i, nodes) ==
  IF i > Len(edges) THEN nodes
  ELSE LET added == SetAdd(SetAdd(nodes, edges[i].u), edges[i].v)
       IN  \* the Set is updated before the next edge is visited
           IF Len(added) > 0 THEN CollectNodes(edges, i + 1, added) ELSE added

\* ---------------------------------------------------------------- layout
centerX == (CanvasWidth * Unit) \div 2
centerY == (CanvasHeight * Unit) \div 2
\* Math.min(width, height) * 0.35
radius == (Min(CanvasWidth, CanvasHeight) * Unit * 35) \div 100

\* mutant: the factor 2 is dropped, the nodes cover half the circle
AngleHalfTurn(i, n) == RoundDiv(PiScaled * i, n)

\* const angle = (2 * Math.PI * i) / graphNodeList.length, i counted from 0
Angle(i, n) == RoundDiv(2 * PiScaled * i, n)

\* graphPositions[node] = { x: centerX + radius*cos(angle), y: centerY + radius*sin(angle) }
NodePosition(i, n) ==
  [x |-> centerX + RoundDiv(radius * Cos(Angle(i, n)), TrigScale),
   y |-> centerY + RoundDiv(radius * Sin(Angle(i, n)), TrigScale)]

\* index (from 1) of the last occurrence of node in list; forEach assigns in
\* list order, and the list has no duplicates
IndexOf(list, node) == CHOOSE i \in 1..Len(list) : list[i] = node

Layout(list) ==
  [node \in Range(list) |-> NodePosition(IndexOf(list, node) - 1, Len(list))]

\* -------------------------------------------------------------- repaint
Max(a, b) == IF a >= b THEN a ELSE b
TwoDigits(k) == IF k < 10 THEN "0" \o ToString(k) ELSE ToString(k)

\* Number.prototype.toFixed(2) of a value given in 1/WeightScale: rounded to
\* hundredths, two decimals always, the sign kept ("-0.00" included)
ToFixed2(value) ==
  LET hundredths == (Abs(value) * 100 + WeightScale \div 2) \div WeightScale
  IN  (IF value < 0 THEN "-" ELSE "") \o ToString(hundredths \div 100) \o "."
        \o TwoDigits(hundredths % 100)

IsNaN(value) == value = NaN

\* a CSS colour: its red, green and blue part as written, and its opacity in
\* 1/WeightScale
Colour(rgb, alpha) == <<rgb, alpha>>
Opaque(rgb) == Colour(rgb, WeightScale)

\* the drawing state of a 2d context as getContext('2d') returns it
DefaultContext ==
  [fillStyle |-> Opaque("#000000"), strokeStyle |-> Opaque("#000000"), lineWidth |-> 1,
   font |-> "10px sans-serif", textAlign |-> "start", textBaseline |-> "alphabetic"]

\* what an operation paints: a node or legend entry by its name, an edge by
\* its place in the list
NodeId(name) == <<name, 0>>
EdgeId(i) == <<"", i>>

\* the paint operations; each records the drawing state it is painted with
ClearRect(x, y, w, h) ==
  [op |-> "clearRect", part |-> "surface", id |-> NodeId(""), at |-> <<x, y>>, extent |-> <<w, h>>,
   style |-> Colour("", 0), lineWidth |-> 0, font |-> "", textAlign |-> "", textBaseline |-> "",
   text |-> ""]
Stroke(ctx, part, id, at, extent) ==
  [op |-> "stroke", part |-> part, id |-> id, at |-> at, extent |-> extent,
   style |-> ctx.strokeStyle, lineWidth |-> ctx.lineWidth, font |-> "", textAlign |-> "",
   textBaseline |-> "", text |-> ""]
Fill(ctx, part, id, at, arcRadius) ==
  [op |-> "fill", part |-> part, id |-> id, at |-> at, extent |-> <<arcRadius, arcRadius>>,
   style |-> ctx.fillStyle, lineWidth |-> 0, font |-> "", textAlign |-> "",
   textBaseline |-> "", text |-> ""]
\* the rectangle is as wide as the measured text plus the padding on both sides
FillRect(ctx, part, id, at, measured, padding, h) ==
  [op |-> "fillRect", part |-> part, id |-> id, at |-> at, extent |-> <<2 * padding, h>>,
   style |-> ctx.fillStyle, lineWidth |-> 0, font |-> ctx.font, textAlign |-> "",
   textBaseline |-> "", text |-> measured]
FillText(ctx, part, id, text, at) ==
  [op |-> "fillText", part |-> part, id |-> id, at |-> at, extent |-> <<0, 0>>,
   style |-> ctx.fillStyle, lineWidth |-> 0, font |-> ctx.font, textAlign |-> ctx.textAlign,
   textBaseline |-> ctx.textBaseline, text |-> text]

\* what redrawGraph reads: the tables, the node list, the positions, hoveredNode
View(edges, recs, list, positions, hovered) ==
  [mstEdges |-> edges, recommendations |-> recs, graphNodeList |-> list,
   graphPositions |-> positions, hoveredNode |-> hovered]

\* graphPositions[node] is an object (truthy) or undefined
HasPosition(positions, node) == node \in DOMAIN positions

\* mutant: the edge is highlighted when hoveredNode is not null
IsHighlightedNotNull(edge, hovered) ==
  hovered # null /\ (edge.u = hovered \/ edge.v = hovered)

\* hoveredNode && (edge.u === hoveredNode || edge.v === hoveredNode)
IsHighlighted(edge, hovered) ==
  Truthy(hovered) /\ (edge.u = hovered \/ edge.v = hovered)

\* isHighlighted ? 1.0 : Math.max(0.3, Math.abs(edge.corr))
EdgeAlpha(edge, isHighlighted) ==
  IF isHighlighted THEN WeightScale ELSE Max((3 * WeightScale) \div 10, Abs(edge.corr))

\* isHighlighted ? 3 : 2
EdgeLineWidth(isHighlighted) == IF isHighlighted THEN 3 ELSE 2

\* `rgba(88, 166, 255, ${alpha})`
EdgeStrokeStyle(alpha) == Colour("rgb(88, 166, 255)", alpha)

\* mutant: the correlation is preferred to the distance
WeightValueCorrFirst(edge) ==
  IF ~IsNaN(edge.corr) /\ edge.corr # 0 THEN edge.corr ELSE edge.distance

\* !isNaN(edge.distance) && edge.distance !== 0 ? edge.distance : edge.corr
WeightValue(edge) ==
  IF ~IsNaN(edge.distance) /\ edge.distance # 0 THEN edge.distance ELSE edge.corr

\* one round of the edge loop: the line, then the label patch and the label
\* text between save() and restore()
DrawEdge(ctx, view, i) ==
  LET edge == view.mstEdges[i]
  IN  IF HasPosition(view.graphPositions, edge.u) /\ HasPosition(view.graphPositions, edge.v)
      THEN LET u == view.graphPositions[edge.u]
               v == view.graphPositions[edge.v]
               isHighlighted == IsHighlighted(edge, view.hoveredNode)
               lineCtx == [ctx EXCEPT !.strokeStyle = EdgeStrokeStyle(EdgeAlpha(edge, isHighlighted)),
                                      !.lineWidth = EdgeLineWidth(isHighlighted)]
               line == Stroke(lineCtx, "edge", EdgeId(i), <<u.x, u.y>>, <<v.x, v.y>>)
               weightValue == WeightValue(edge)
           IN  IF ~IsNaN(weightValue)
               THEN LET mid == <<(u.x + v.x) \div 2, (u.y + v.y) \div 2>>
                        label == ToFixed2(weightValue)
                        patchCtx == [lineCtx EXCEPT !.font = "10px \"Segoe UI\", sans-serif",
                                                    !.fillStyle = Colour("rgb(13, 17, 23)", (85 * WeightScale) \div 100)]
                        textCtx == [patchCtx EXCEPT
                                      !.fillStyle = Opaque(IF isHighlighted THEN "#58a6ff"
                                                           ELSE "#8b949e"),
                                      !.textAlign = "center", !.textBaseline = "middle"]
                    IN  [ctx |-> lineCtx,
                         ops |-> << line,
                                    FillRect(patchCtx, "edge", EdgeId(i), mid, label, 4 * Unit, 16 * Unit),
                                    FillText(textCtx, "edge", EdgeId(i), label, mid) >>]
               ELSE [ctx |-> lineCtx, ops |-> <<line>>]
      ELSE [ctx |-> ctx, ops |-> <<>>]

\* stockData.mstEdges.forEach(edge => ...)
RECURSIVE DrawEdges(_, _, _, _)
DrawEdges(ctx, ops, view, i) ==
  IF i > Len(view.mstEdges) THEN [ctx |-> ctx, ops |-> ops]
  ELSE LET drawn == DrawEdge(ctx, view, i)
           next  == ops \o drawn.ops
       IN  IF Len(next) >= 0 /\ drawn.ctx.lineWidth >= 0
           THEN DrawEdges(drawn.ctx, next, view, i + 1)
           ELSE [ctx |-> ctx, ops |-> ops]

\* stockData.recommendations.find(s => s.ticker === node): the index of the
\* first such row, 0 for undefined
FindStock(recs, node) ==
  LET found == {k \in 1..Len(recs) : recs[k].ticker = node}
  IN  IF found = {} THEN 0 ELSE CHOOSE k \in found : \A m \in found : k <= m

\* mutant: a label that is not BUY is painted as AVOID
NodeColorTwoWay(label) == IF label = "BUY" THEN Opaque("#3fb950") ELSE Opaque("#f85149")

\* let nodeColor = '#8b949e'; if (label === 'BUY') ...; if (label === 'AVOID') ...
NodeColor(label) ==
  IF label = "AVOID" THEN Opaque("#f85149")
  ELSE IF label = "BUY" THEN Opaque("#3fb950") ELSE Opaque("#8b949e")

\* node.replace('.NS', '')
DisplayName(node) == IF node = "TCS.NS" THEN "TCS" ELSE node

\* one round of the node loop: the circle, its outline, the name, and the
\* two detail lines of a hovered node that has a recommendation
DrawNode(ctx, view, node) ==
  LET pos == view.graphPositions[node]
      k == FindStock(view.recommendations, node)
      label == IF k > 0 THEN view.recommendations[k].label ELSE "HOLD"
      isHovered == view.hoveredNode = node
      nodeRadius == IF isHovered THEN 20 ELSE 15
      circleCtx == [ctx EXCEPT !.fillStyle = NodeColor(label)]
      outlineCtx == [circleCtx EXCEPT !.strokeStyle = Opaque(IF isHovered THEN "#58a6ff"
                                                             ELSE "#161b22"),
                                      !.lineWidth = IF isHovered THEN 3 ELSE 2]
      nameCtx == [outlineCtx EXCEPT
                    !.fillStyle = Opaque(IF isHovered THEN "#58a6ff" ELSE "#e6edf3"),
                    !.font = IF isHovered THEN "bold 13px \"Segoe UI\", sans-serif"
                             ELSE "12px \"Segoe UI\", sans-serif",
                    !.textAlign = "center", !.textBaseline = "middle"]
      circle == << Fill(circleCtx, "node", NodeId(node), <<pos.x, pos.y>>, nodeRadius * Unit),
                   Stroke(outlineCtx, "node", NodeId(node), <<pos.x, pos.y>>,
                          <<nodeRadius * Unit, nodeRadius * Unit>>),
                   FillText(nameCtx, "node", NodeId(node), DisplayName(node),
                            <<pos.x, pos.y - 30 * Unit>>) >>
  IN  IF isHovered /\ k > 0
      THEN LET stock == view.recommendations[k]
               sign == IF stock.momentum >= 0 THEN "+" ELSE ""
               infoCtx == [nameCtx EXCEPT !.fillStyle = Opaque("#8b949e"),
                                          !.font = "10px \"Segoe UI\", sans-serif"]
           IN  [ctx |-> infoCtx,
                ops |-> circle \o
                  << FillText(infoCtx, "info", NodeId(node), sign \o ToFixed2(stock.momentum) \o "%",
                              <<pos.x, pos.y + 35 * Unit>>),
                     FillText(infoCtx, "info", NodeId(node), stock.label,
                              <<pos.x, pos.y + 48 * Unit>>) >>]
      ELSE [ctx |-> nameCtx, ops |-> circle]

\* graphNodeList.forEach(node => ...)
RECURSIVE DrawNodes(_, _, _, _)
DrawNodes(ctx, ops, view, i) ==
  IF i > Len(view.graphNodeList) THEN [ctx |-> ctx, ops |-> ops]
  ELSE LET drawn == DrawNode(ctx, view, view.graphNodeList[i])
           next  == ops \o drawn.ops
       IN  IF Len(next) >= 0 /\ drawn.ctx.lineWidth >= 0
           THEN DrawNodes(drawn.ctx, next, view, i + 1)
           ELSE [ctx |-> ctx, ops |-> ops]

\* the legend: three texts, then three dots
DrawLegend(ctx) ==
  LET textCtx == [ctx EXCEPT !.fillStyle = Opaque("#8b949e"),
                             !.font = "11px \"Segoe UI\", sans-serif", !.textAlign = "left"]
      buyCtx == [textCtx EXCEPT !.fillStyle = Opaque("#3fb950")]
      holdCtx == [textCtx EXCEPT !.fillStyle = Opaque("#8b949e")]
      avoidCtx == [textCtx EXCEPT !.fillStyle = Opaque("#f85149")]
      h == CanvasHeight
  IN  [ctx |-> avoidCtx,
       ops |-> << FillText(textCtx, "legend", NodeId("BUY"), "BUY", <<20 * Unit, (h - 50) * Unit>>),
                  FillText(textCtx, "legend", NodeId("HOLD"), "HOLD", <<20 * Unit, (h - 35) * Unit>>),
                  FillText(textCtx, "legend", NodeId("AVOID"), "AVOID", <<20 * Unit, (h - 20) * Unit>>),
                  Fill(buyCtx, "legend", NodeId("BUY"), <<10 * Unit, (h - 50) * Unit>>, 5 * Unit),
                  Fill(holdCtx, "legend", NodeId("HOLD"), <<10 * Unit, (h - 35) * Unit>>, 5 * Unit),
                  Fill(avoidCtx, "legend", NodeId("AVOID"), <<10 * Unit, (h - 20) * Unit>>, 5 * Unit) >>]

\* mutant: the nodes are painted before the edges
RedrawGraphNodesFirst(ctx, view) ==
  LET clear  == <<ClearRect(0, 0, CanvasWidth * Unit, CanvasHeight * Unit)>>
      nodes  == DrawNodes(ctx, clear, view, 1)
      edges  == DrawEdges(nodes.ctx, nodes.ops, view, 1)
      legend == DrawLegend(edges.ctx)
  IN  [ctx |-> legend.ctx, ops |-> edges.ops \o legend.ops]

\* redrawGraph(): the operations it issues and the drawing state it leaves
RedrawGraph(ctx, view) ==
  LET clear  == <<ClearRect(0, 0, CanvasWidth * Unit, CanvasHeight * Unit)>>
      edges  == DrawEdges(ctx, clear, view, 1)
      nodes  == DrawNodes(edges.ctx, edges.ops, view, 1)
      legend == DrawLegend(nodes.ctx)
  IN  [ctx |-> legend.ctx, ops |-> nodes.ops \o legend.ops]

\* mutant: a clearRect never erases what is on the surface
CoversSurfaceNever(clear) == FALSE

\* a clearRect erases the whole surface when it spans it
CoversSurface(clear) ==
  /\ clear.at[1] <= 0 /\ clear.at[2] <= 0
  /\ clear.at[1] + clear.extent[1] >= CanvasWidth * Unit
  /\ clear.at[2] + clear.extent[2] >= CanvasHeight * Unit

\* what the surface shows after ops are painted over canvas: the operations
\* from the last clearRect of the whole surface on, or all of them when there
\* is none
Paint(canvas, ops) ==
  LET clears == {k \in 1..Len(ops) : ops[k].op = "clearRect" /\ CoversSurface(ops[k])}
  IN  IF clears = {} THEN canvas \o ops
      ELSE SubSeq(ops, CHOOSE k \in clears : \A m \in clears : m <= k, Len(ops))

\* the view as the globals hold it, with hoveredNode as given
CurrentView(hovered) ==
  View(mstEdges, recommendations, graphNodeList, graphPositions, hovered)

\* what redrawGraph() shows on a new surface with a new context
Frame(hovered) == Paint(<<>>, RedrawGraph(DefaultContext, CurrentView(hovered)).ops)

\* -------------------------------------------------------------- hit test
\* mutant: pos.x is subtracted from y as well
DistanceSqTypo(x, y, pos) == (x - pos.x) * (x - pos.x) + (y - pos.x) * (y - pos.x)

\* (x - pos.x) ** 2 + (y - pos.y) ** 2
DistanceSq(x, y, pos) == (x - pos.x) * (x - pos.x) + (y - pos.y) * (y - pos.y)

\* mutant: distance < 20
WithinHitRadiusStrict(x, y, pos) == DistanceSq(x, y, pos) < (HitRadius * Unit) * (HitRadius * Unit)

\* Math.sqrt(...) <= 20
WithinHitRadius(x, y, pos) == DistanceSq(x, y, pos) <= (HitRadius * Unit) * (HitRadius * Unit)

\* mutant: the first node hit is kept
RECURSIVE HitScanFirst(_, _, _, _)
HitScanFirst(i, x, y, foundNode) ==
  IF i > Len(graphNodeList) THEN foundNode
  ELSE IF foundNode = null /\ WithinHitRadius(x, y, graphPositions[graphNodeList[i]])
       THEN HitScanFirst(i + 1, x, y, graphNodeList[i])
       ELSE HitScanFirst(i + 1, x, y, foundNode)

\* let foundNode = null; graphNodeList.forEach(node => { if (hit) foundNode = node })
RECURSIVE HitScan(_, _, _, _)
HitScan(i, x, y, foundNode) ==
  IF i > Len(graphNodeList) THEN foundNode
  ELSE IF WithinHitRadius(x, y, graphPositions[graphNodeList[i]])
       THEN HitScan(i + 1, x, y, graphNodeList[i])
       ELSE HitScan(i + 1, x, y, foundNode)

\* mutant: let foundNode = ''
FoundNodeEmptyString(x, y) == HitScan(1, x, y, "")

FoundNode(x, y) == HitScan(1, x, y, null)

\* mutant: the repaint is not gated on a change
HoverChangedAlways(foundNode, hovered) == TRUE

\* if (foundNode !== hoveredNode)
HoverChanged(foundNode, hovered) == foundNode # hovered

\* mutant: the displayed size is taken for the intrinsic size
LogicalXUnscaled(rect, clientX) == clientX - rect.left

\* x = (e.clientX - rect.left) * (canvas.width / rect.width)
LogicalX(rect, clientX) == ((clientX - rect.left) * CanvasWidth) \div rect.width
LogicalY(rect, clientY) == ((clientY - rect.top) * CanvasHeight) \div rect.height

\* ---------------------------------------------------------- event inputs
\* the nodes around which pointer positions are enumerated
FocusNodes ==
  IF graphNodeList = <<>> THEN {}
  ELSE {graphNodeList[1], graphNodeList[Min(2, Len(graphNodeList))], graphNodeList[Len(graphNodeList)]}

Offsets ==
  { <<0, 0>>, <<HitRadius * Unit, 0>>, <<HitRadius * Unit + 1, 0>>, <<0, -(HitRadius * Unit)>>,
    <<(HitRadius * Unit) \div 2, (HitRadius * Unit) \div 2>> }

\* logical points the pointer is moved to
LogicalPoints ==
  {<<graphPositions[n].x + o[1], graphPositions[n].y + o[2]>> : n \in FocusNodes, o \in Offsets}
    \cup {<<centerX, centerY>>, <<0, 0>>}

\* the logical points visited when the canvas is displayed at another size
\* than its own: the centres of the nodes and the corner
ScaledPoints ==
  {<<graphPositions[n].x, graphPositions[n].y>> : n \in FocusNodes} \cup {<<0, 0>>}

\* the client coordinates of a logical point under a bounding rect
ClientPoints(rect) ==
  {<<rect.left + (p[1] * rect.width) \div CanvasWidth,
     rect.top + (p[2] * rect.height) \div CanvasHeight>> :
       p \in IF rect.width = CanvasWidth THEN LogicalPoints ELSE ScaledPoints}

NoRect == [left |-> 0, top |-> 0, width |-> 0, height |-> 0]
NoEvent == [type |-> "none", rect |-> NoRect, clientX |-> 0, clientY |-> 0, x |-> 0, y |-> 0,
            found |-> null, before |-> null, repaints |-> 0, selects |-> <<>>]

\* -------------------------------------------------------------- search page
\* String.prototype.toUpperCase, trim and includes
LowerCase == "abcdefghijklmnopqrstuvwxyz"
UpperCase == "ABCDEFGHIJKLMNOPQRSTUVWXYZ"
CharAt(s, i) == SubSeq(s, i, i)
UpperChar(c) ==
  LET at == {i \in 1..Len(LowerCase) : CharAt(LowerCase, i) = c}
  IN  IF at = {} THEN c ELSE CharAt(UpperCase, CHOOSE i \in at : TRUE)

RECURSIVE ToUpperCase(_)
ToUpperCase(s) ==
  IF Len(s) = 0 THEN "" ELSE UpperChar(CharAt(s, 1)) \o ToUpperCase(SubSeq(s, 2, Len(s)))

RECURSIVE Trim(_)
Trim(s) ==
  IF Len(s) = 0 THEN ""
  ELSE IF CharAt(s, 1) = " " THEN Trim(SubSeq(s, 2, Len(s)))
  ELSE IF CharAt(s, Len(s)) = " " THEN Trim(SubSeq(s, 1, Len(s) - 1))
  ELSE s

Includes(text, query) ==
  \E i \in 0..(Len(text) - Len(query)) : SubSeq(text, i + 1, i + Len(query)) = query

\* what is typed into #searchInput: nothing, blanks, a ticker in lower case
\* with blanks around it, part of a ticker, part of a company name, a ticker
\* without a price file, and a text that matches no stock
SearchInputs == {"", "  ", " aapl ", "TCS", "tata", "T1", "ZZZ"}

\* stockData.stockNames[ticker] || ''
StockName(ticker) ==
  CASE ticker = "AAPL" -> "Apple Inc."
    [] ticker = "TCS.NS" -> "Tata Consultancy Services"
    [] OTHER -> ""

\* the loop of searchStock: the index of the first recommendation whose
\* ticker or company name includes the query, 0 when match stays null
FindMatch(recs, query) ==
  LET found == {k \in 1..Len(recs) :
                  \/ Includes(ToUpperCase(recs[k].ticker), query)
                  \/ Includes(ToUpperCase(StockName(recs[k].ticker)), query)}
  IN  IF found = {} THEN 0 ELSE CHOOSE k \in found : \A m \in found : k <= m

\* parseFloat((basePrice * (1 + match.momentum)).toFixed(2)), in 1/PriceScale
MockPriceNSE(momentum) ==
  BasePrice * PriceScale + RoundDiv(BasePrice * PriceScale * momentum, 100 * WeightScale)

\* (mockPriceNSE * 0.999).toFixed(2)
MockPriceBSE(priceNSE) == RoundDiv(priceNSE * 999, 1000)

\* a Chart of Chart.js: its labels, the data of its dataset and the colour of
\* the line; NoChart stands for null
NoChart == [labels |-> <<>>, data |-> <<>>, borderColor |-> ""]

\* resultDiv.innerHTML: nothing yet, the request to enter a symbol, the
\* not-found message, or the stock with its #stockPriceChart canvas and what
\* that canvas shows
BlankResult ==
  [kind |-> "blank", query |-> "", ticker |-> "", priceNSE |-> 0, priceBSE |-> 0,
   canvas |-> FALSE, chart |-> NoChart]
PromptResult == [BlankResult EXCEPT !.kind = "prompt"]
NotFoundResult(query) == [BlankResult EXCEPT !.kind = "notfound", !.query = query]
StockResult(match) ==
  [kind |-> "stock", query |-> "", ticker |-> match.ticker,
   priceNSE |-> MockPriceNSE(match.momentum),
   priceBSE |-> MockPriceBSE(MockPriceNSE(match.momentum)),
   canvas |-> TRUE, chart |-> NoChart]

\* ---------------------------------------------------------- trading ticket
\* the values of a number input are in 1/PriceScale, NaN for a value
\* parseFloat does not read (the input left blank)
NoForm ==
  [action |-> "", submitText |-> "", orderType |-> "", exchange |-> "", quantity |-> NaN,
   priceType |-> "", price |-> NaN, balance |-> "", requirement |-> NaN]

\* updateTradingSummary(): requirement = quantity * price, shown with toFixed(2)
UpdateTradingSummary(form) ==
  [form EXCEPT !.requirement =
                  RoundDiv(ParseFloatOrZero(form.quantity) * ParseFloatOrZero(form.price),
                           PriceScale),
               !.balance = "0"]

\* createTradingInterface(ticker, priceNSE, priceBSE) and the summary update
\* that ends initializeTradingInterface
TradingInterface(priceNSE) ==
  UpdateTradingSummary(
    [action |-> "buy", submitText |-> "Buy", orderType |-> "delivery", exchange |-> "BSE",
     quantity |-> 1 * PriceScale, priceType |-> "limit", price |-> priceNSE, balance |-> "0",
     requirement |-> 0])

\* the listener of a .trading-tab
TabClick(form, action) ==
  UpdateTradingSummary(
    [form EXCEPT !.action = action, !.submitText = IF action = "buy" THEN "Buy" ELSE "Sell"])

\* the change listener of #tradingExchange
ExchangeChange(form, exchange) ==
  LET priceNSE == ParseFloatOrZero(form.price)
  IN  UpdateTradingSummary(
        [form EXCEPT !.exchange = exchange,
                     !.price = IF exchange = "BSE" THEN RoundDiv(priceNSE * 999, 1000)
                               ELSE RoundDiv(priceNSE * 1000, 999)])

\* what is typed into #tradingQuantity and #tradingPrice
QuantityInputs == {NaN, -1 * PriceScale, 250}
PriceInputs == {NaN, -5 * PriceScale, 5000}

\* an alert() dialog: its first line and, for a placed order, the values of
\* the lines that follow; NoAlert when no dialog is open
NoAlert == [text |-> "", details |-> <<>>]
Alert(text) == [text |-> text, details |-> <<>>]

\* orderType.charAt(0).toUpperCase() + orderType.slice(1)
Capitalise(s) == ToUpperCase(CharAt(s, 1)) \o SubSeq(s, 2, Len(s))

\* mutant: a price is demanded of a market order too
HandleTradingSubmitAnyPriceType(form) ==
  LET quantity == ParseFloatOrZero(form.quantity)
      price == ParseFloatOrZero(form.price)
      actionText == IF form.action = "buy" THEN "Buy" ELSE "Sell"
  IN  IF quantity <= 0 THEN Alert("Please enter a valid quantity")
      ELSE IF price <= 0 THEN Alert("Please enter a valid price")
      ELSE [text |-> actionText \o " order placed!",
            details |-> <<quantity, form.exchange, Capitalise(form.orderType),
                          Capitalise(form.priceType), price,
                          RoundDiv(quantity * price, PriceScale)>>]

\* handleTradingSubmit(): the alert it opens
HandleTradingSubmit(form) ==
  LET quantity == ParseFloatOrZero(form.quantity)
      price == ParseFloatOrZero(form.price)
      actionText == IF form.action = "buy" THEN "Buy" ELSE "Sell"
  IN  IF quantity <= 0 THEN Alert("Please enter a valid quantity")
      ELSE IF price <= 0 /\ form.priceType = "limit" THEN Alert("Please enter a valid price")
      ELSE [text |-> actionText \o " order placed!",
            details |-> <<quantity, form.exchange, Capitalise(form.orderType),
                          Capitalise(form.priceType), price,
                          RoundDiv(quantity * price, PriceScale)>>]

\* ------------------------------------------------------------- price chart
\* a line of data/<ticker>.csv split at its commas: the date cell as text,
\* the number cells in 1/PriceScale (NaN for a cell parseFloat does not read)
PriceRow(date, close, high, low, open, volume) == <<date, close, high, low, open, volume>>
Header == <<"Price", NaN, NaN, NaN, NaN, NaN>>
BlankLine == <<"">>

\* response.text() of data/<ticker>.csv: a rising file with a blank line, a
\* row without a date, a row without a close and a row of two cells; a
\* falling file; a file of three lines; a file whose rows are all invalid
PriceFile(ticker) ==
  CASE ticker = "AAPL" ->
         << Header, Header, Header,
            PriceRow("2024-01-02", 18500, 18600, 18400, 18450, 900),
            BlankLine,
            PriceRow("", 18800, 18900, 18700, 18750, 900),
            PriceRow("2024-01-03", NaN, 18900, 18700, 18750, 900),
            <<"2024-01-04", 18650>>,
            PriceRow("2024-01-05", 18700, NaN, 18600, 18650, 900) >>
    [] ticker = "TCS.NS" ->
         << Header, Header, Header,
            PriceRow("2024-01-02", 390000, 391000, 389000, 389500, 70),
            PriceRow("2024-01-03", 385000, 392000, 384000, 390000, 80) >>
    [] ticker = "T1" -> << Header, Header, Header, BlankLine >>
    [] OTHER -> << Header, Header, Header, PriceRow("2024-01-02", 0, 10, 10, 10, 5) >>

\* text.trim().split('\n').filter(line => line.trim().length > 0)
NonBlankLines(text) == SelectSeq(text, LAMBDA line : line # BlankLine)

\* the loop over lines[3..]: the rows of at least five cells that have a date
\* and a close above 0
RECURSIVE ParsePriceData(_, _, _)
ParsePriceData(lines, i, priceData) ==
  IF i > Len(lines) THEN priceData
  ELSE LET values == lines[i]
           valid == Len(values) >= 5 /\ values[1] # "" /\ ParseFloatOrZero(values[2]) > 0
       IN  ParsePriceData(lines, i + 1,
             IF valid
             THEN Append(priceData, [date |-> values[1],
                                     close |-> ParseFloatOrZero(values[2]),
                                     high |-> ParseFloatOrZero(values[3]),
                                     low |-> ParseFloatOrZero(values[4]),
                                     open |-> ParseFloatOrZero(values[5])])
             ELSE priceData)

\* Array.prototype.slice(-n)
SliceLast(s, n) == SubSeq(s, Max(1, Len(s) - n + 1), Len(s))

\* what loadStockPriceChart hands to drawStockPriceChart once response.text()
\* has resolved; <<>> when it returns before
LoadedPriceData(text) ==
  LET lines == NonBlankLines(text)
  IN  IF Len(lines) < 4 THEN <<>>
      ELSE SliceLast(ParsePriceData(lines, 4, <<>>), ChartDays)

\* new Chart(ctx, {...}) of drawStockPriceChart
NewChart(priceData) ==
  LET closes == [i \in 1..Len(priceData) |-> priceData[i].close]
      isPositive == closes[Len(closes)] >= closes[1]
  IN  [labels |-> [i \in 1..Len(priceData) |-> priceData[i].date],
       data |-> closes,
       borderColor |-> IF isPositive THEN "#3fb950" ELSE "#f85149"]

\* a call of loadStockPriceChart(ticker) that waits at `await fetch(...)`
\* ("fetch") or at `await response.text()` ("text")
ChartLoad(ticker, stage) == [ticker |-> ticker, stage |-> stage]

\* -------------------------------------------------------------------- Init
Init ==
  /\ hasPlaceholder \in BOOLEAN
  /\ pc = "init"
  /\ mstEdges = <<>>
  /\ recommendations = <<>>
  /\ graphCanvas = null
  /\ graphCtx = null
  /\ graphNodeList = <<>>
  /\ graphPositions = <<>>
  /\ hoveredNode = null
  /\ handlers = FALSE
  /\ canvasFrame = null
  /\ searchInput = ""
  /\ lastEvent = NoEvent
  /\ resultDiv = BlankResult
  /\ trading = NoForm
  /\ chartLoads = EmptyBag
  /\ stockPriceChart = NoChart
  /\ alertShown = NoAlert

\* ----------------------------------------------------------------- actions
\* loadAllData up to its call of drawMSTGraph: the tables are replaced only
\* when the file was loaded and has rows
LoadAllData(recs, edges) ==
  /\ pc = "init"
  /\ pc' = "loaded"
  /\ recommendations' = IF Len(recs) > 0 THEN recs ELSE recommendations
  /\ mstEdges' = IF Len(edges) > 0 THEN edges ELSE mstEdges
  /\ UNCHANGED <<hasPlaceholder, graphCanvas, graphCtx, graphNodeList, graphPositions,
                 hoveredNode, handlers, canvasFrame, searchInput, lastEvent>>
  /\ UNCHANGED pageVars

\* loadAllData when the correlation rows throw (a row ticker that is not a
\* header column): the catch block reports the error, mst_edges.csv is not
\* loaded and drawMSTGraph is not called
LoadAllDataThrows(recs) ==
  /\ pc = "init"
  /\ pc' = "failed"
  /\ recommendations' = IF Len(recs) > 0 THEN recs ELSE recommendations
  /\ UNCHANGED <<hasPlaceholder, mstEdges, graphCanvas, graphCtx, graphNodeList,
                 graphPositions, hoveredNode, handlers, canvasFrame, searchInput, lastEvent>>
  /\ UNCHANGED pageVars

\* mutant: the empty edge list is not checked
ReturnsEarlyNoLengthCheck(placeholder, edges) == ~placeholder

\* if (!placeholder || stockData.mstEdges.length === 0) return
ReturnsEarly(placeholder, edges) == ~placeholder \/ Len(edges) = 0

\* drawMSTGraph()
DrawMSTGraph ==
  /\ pc = "loaded"
  /\ IF ReturnsEarly(hasPlaceholder, mstEdges)
     THEN /\ pc' = "nograph"
          /\ UNCHANGED <<graphCanvas, graphCtx, graphNodeList, graphPositions, handlers,
                         canvasFrame, lastEvent>>
     ELSE /\ pc' = "ready"
          /\ graphCanvas' = "canvas"
          /\ graphNodeList' = CollectNodes(mstEdges, 1, <<>>)
          /\ graphPositions' = Layout(graphNodeList')
          /\ handlers' = TRUE
          /\ \E drawn \in {RedrawGraph(DefaultContext,
                                        View(mstEdges, recommendations, graphNodeList',
                                             graphPositions', hoveredNode))} :
                /\ graphCtx' = drawn.ctx
                /\ canvasFrame' = Paint(<<>>, drawn.ops)
          /\ lastEvent' = [NoEvent EXCEPT !.type = "draw", !.repaints = 1]
  /\ UNCHANGED <<hasPlaceholder, mstEdges, recommendations, hoveredNode, searchInput>>
  /\ UNCHANGED pageVars

\* mutant: redrawGraph paints the focus the listener found on entry
RedrawStale(hovered) ==
  \E drawn \in {RedrawGraph(graphCtx, CurrentView(hoveredNode))} :
    /\ graphCtx' = drawn.ctx
    /\ canvasFrame' = Paint(canvasFrame, drawn.ops)

\* a call of redrawGraph() from a listener: the globals are read as the
\* listener holds them, hoveredNode as it was just assigned
Redraw(hovered) ==
  \E drawn \in {RedrawGraph(graphCtx, CurrentView(hovered))} :
    /\ graphCtx' = drawn.ctx
    /\ canvasFrame' = Paint(canvasFrame, drawn.ops)

\* mutant: the node that gets the focus is moved to the end of the node list
MouseMoveRaisesNode(rect, clientX, clientY) ==
  /\ handlers
  /\ \E x \in {LogicalX(rect, clientX)}, y \in {LogicalY(rect, clientY)} :
     \E foundNode \in {FoundNode(x, y)} :
     /\ IF HoverChanged(foundNode, hoveredNode)
        THEN /\ hoveredNode' = foundNode
             /\ Redraw(hoveredNode')
        ELSE UNCHANGED <<hoveredNode, graphCtx, canvasFrame>>
     /\ graphNodeList' =
          IF HoverChanged(foundNode, hoveredNode) /\ foundNode # null
          THEN SelectSeq(graphNodeList, LAMBDA n : n # foundNode) \o <<foundNode>>
          ELSE graphNodeList
     /\ lastEvent' = [type |-> "mousemove", rect |-> rect, clientX |-> clientX,
                      clientY |-> clientY, x |-> x, y |-> y, found |-> foundNode,
                      before |-> hoveredNode,
                      repaints |-> IF HoverChanged(foundNode, hoveredNode) THEN 1 ELSE 0,
                      selects |-> <<>>]
  /\ UNCHANGED <<hasPlaceholder, pc, mstEdges, recommendations, graphCanvas, graphPositions,
                 handlers, searchInput>>
  /\ UNCHANGED pageVars

\* the mousemove listener
MouseMove(rect, clientX, clientY) ==
  /\ handlers
  /\ \E x \in {LogicalX(rect, clientX)}, y \in {LogicalY(rect, clientY)} :
     \E foundNode \in {FoundNode(x, y)} :
     /\ IF HoverChanged(foundNode, hoveredNode)
        THEN /\ hoveredNode' = foundNode
             /\ Redraw(hoveredNode')
        ELSE UNCHANGED <<hoveredNode, graphCtx, canvasFrame>>
     /\ lastEvent' = [type |-> "mousemove", rect |-> rect, clientX |-> clientX,
                      clientY |-> clientY, x |-> x, y |-> y, found |-> foundNode,
                      before |-> hoveredNode,
                      repaints |-> IF HoverChanged(foundNode, hoveredNode) THEN 1 ELSE 0,
                      selects |-> <<>>]
  /\ UNCHANGED <<hasPlaceholder, pc, mstEdges, recommendations, graphCanvas, graphNodeList,
                 graphPositions, handlers, searchInput>>
  /\ UNCHANGED pageVars

\* mutant: the mouseleave listener repaints only when a node was hovered
MouseLeaveGated ==
  /\ handlers
  /\ hoveredNode' = null
  /\ IF hoveredNode # null THEN Redraw(hoveredNode') ELSE UNCHANGED <<graphCtx, canvasFrame>>
  /\ lastEvent' = [NoEvent EXCEPT !.type = "mouseleave", !.before = hoveredNode,
                                  !.repaints = IF hoveredNode # null THEN 1 ELSE 0]
  /\ UNCHANGED <<hasPlaceholder, pc, mstEdges, recommendations, graphCanvas, graphNodeList,
                 graphPositions, handlers, searchInput>>
  /\ UNCHANGED pageVars

\* the mouseleave listener
MouseLeave ==
  /\ handlers
  /\ hoveredNode' = null
  /\ Redraw(hoveredNode')
  /\ lastEvent' = [NoEvent EXCEPT !.type = "mouseleave", !.before = hoveredNode, !.repaints = 1]
  /\ UNCHANGED <<hasPlaceholder, pc, mstEdges, recommendations, graphCanvas, graphNodeList,
                 graphPositions, handlers, searchInput>>
  /\ UNCHANGED pageVars

\* showStockDetails(ticker): fills the search box when the ticker has a recommendation
ShowStockDetails(ticker) ==
  IF \E i \in 1..Len(recommendations) : recommendations[i].ticker = ticker
  THEN ticker ELSE searchInput

\* the click listener: if (hoveredNode) showStockDetails(hoveredNode)
ClickSelects(hovered) == IF Truthy(hovered) THEN <<hovered>> ELSE <<>>

\* mutant: a click that selects also drops the focus and repaints
ClickClearsHover ==
  /\ handlers
  /\ LET selects == ClickSelects(hoveredNode)
     IN  /\ searchInput' = IF Len(selects) > 0 THEN ShowStockDetails(selects[1]) ELSE searchInput
         /\ hoveredNode' = IF Len(selects) > 0 THEN null ELSE hoveredNode
         /\ IF Len(selects) > 0 THEN Redraw(hoveredNode') ELSE UNCHANGED <<graphCtx, canvasFrame>>
         /\ lastEvent' = [NoEvent EXCEPT !.type = "click", !.before = hoveredNode,
                                         !.selects = selects]
  /\ UNCHANGED <<hasPlaceholder, pc, mstEdges, recommendations, graphCanvas, graphNodeList,
                 graphPositions, handlers>>
  /\ UNCHANGED pageVars

\* the click listener
Click ==
  /\ handlers
  /\ LET selects == ClickSelects(hoveredNode)
     IN  /\ searchInput' = IF Len(selects) > 0 THEN ShowStockDetails(selects[1]) ELSE searchInput
         /\ lastEvent' = [NoEvent EXCEPT !.type = "click", !.before = hoveredNode,
                                         !.selects = selects]
  /\ UNCHANGED <<hasPlaceholder, pc, mstEdges, recommendations, graphCanvas, graphCtx,
                 graphNodeList, graphPositions, hoveredNode, handlers, canvasFrame>>
  /\ UNCHANGED pageVars

Next ==
  \/ \E d \in Datasets : LoadAllData(d[1], d[2])
  \/ \E recs \in RecommendationTables : LoadAllDataThrows(recs)
  \/ DrawMSTGraph
  \/ \E rect \in Rects : \E c \in ClientPoints(rect) : MouseMove(rect, c[1], c[2])
  \/ MouseLeave
  \/ Click

Spec == Init /\ [][Next]_vars

\* ------------------------------------------------------ search page actions
\* The search result has specifications of its own, which start where the
\* data are loaded and no network view was built: SearchSpec runs the
\* handlers of the search box and of the stock cards and the continuations of
\* loadStockPriceChart, TradingSpec the handlers of the trading ticket.  (The
\* click listener of the network view reaches searchStock through
\* showStockDetails just as a stock card does; Click above stops at the
\* search box.)  alert() is modal: while a dialog is open no handler and no
\* continuation runs.

\* searchStock() for the value the search box holds; a matching search
\* starts loadStockPriceChart(match.ticker), kept to MaxLoads calls in flight
SearchStock(value) ==
  LET query == ToUpperCase(Trim(value))
      k == FindMatch(recommendations, query)
  IN  IF query = ""
      THEN /\ resultDiv' = PromptResult
           /\ trading' = NoForm
           /\ UNCHANGED chartLoads
      ELSE IF k = 0
      THEN /\ resultDiv' = NotFoundResult(query)
           /\ trading' = NoForm
           /\ UNCHANGED chartLoads
      ELSE /\ BagCardinality(chartLoads) < MaxLoads
           /\ resultDiv' = StockResult(recommendations[k])
           /\ trading' = TradingInterface(MockPriceNSE(recommendations[k].momentum))
           /\ chartLoads' = chartLoads (+) SetToBag({ChartLoad(recommendations[k].ticker, "fetch")})

\* the user edits the search box
TypeQuery(value) ==
  /\ alertShown = NoAlert
  /\ searchInput' = value
  /\ UNCHANGED <<graphVars, pageVars>>

\* the search button, or Enter in the search box
SearchClicked ==
  /\ alertShown = NoAlert
  /\ SearchStock(searchInput)
  /\ UNCHANGED <<graphVars, searchInput, stockPriceChart, alertShown>>

\* the tickers showStockDetails is called with: those of the stock cards and
\* a node of the network view that has no recommendation
CardTickers == {"AAPL", "TCS.NS", "T2", "MSFT"}

\* showStockDetails(ticker), the click on a stock card
CardClicked(ticker) ==
  /\ alertShown = NoAlert
  /\ searchInput' = ShowStockDetails(ticker)
  /\ IF \E i \in 1..Len(recommendations) : recommendations[i].ticker = ticker
     THEN SearchStock(searchInput')
     ELSE UNCHANGED <<resultDiv, trading, chartLoads>>
  /\ UNCHANGED <<graphVars, stockPriceChart, alertShown>>

\* how `await fetch(...)` ends: a response that is ok, one that is not, or a
\* rejection that the catch block reports
FetchOutcomes == {"ok", "notOk", "rejected"}

\* loadStockPriceChart from `await fetch(...)` to `await response.text()`
FetchResolves(load, outcome) ==
  /\ alertShown = NoAlert
  /\ BagIn(load, chartLoads)
  /\ load.stage = "fetch"
  /\ chartLoads' = (chartLoads (-) SetToBag({load}))
                     (+) (IF outcome = "ok" THEN SetToBag({ChartLoad(load.ticker, "text")})
                          ELSE EmptyBag)
  /\ UNCHANGED <<graphVars, searchInput, resultDiv, trading, stockPriceChart, alertShown>>

\* drawStockPriceChart(priceData, ticker): the chart goes to the element that
\* has the id stockPriceChart now; the chart destroyed before was on that
\* canvas or on one that left the page
DrawStockPriceChart(priceData, ticker) ==
  IF ~resultDiv.canvas
  THEN UNCHANGED <<resultDiv, stockPriceChart>>
  ELSE /\ stockPriceChart' = NewChart(priceData)
       /\ resultDiv' = [resultDiv EXCEPT !.chart = NewChart(priceData)]

\* loadStockPriceChart from `await response.text()` to its end
TextResolves(load) ==
  /\ alertShown = NoAlert
  /\ BagIn(load, chartLoads)
  /\ load.stage = "text"
  /\ chartLoads' = chartLoads (-) SetToBag({load})
  /\ LET priceData == LoadedPriceData(PriceFile(load.ticker))
     IN  IF Len(priceData) = 0
         THEN UNCHANGED <<resultDiv, stockPriceChart>>
         ELSE DrawStockPriceChart(priceData, load.ticker)
  /\ UNCHANGED <<graphVars, searchInput, trading, alertShown>>

\* a handler of the trading ticket that replaces the controls by `form`
TradingEdit(form) ==
  /\ alertShown = NoAlert
  /\ trading # NoForm
  /\ trading' = form
  /\ UNCHANGED <<graphVars, searchInput, resultDiv, chartLoads, stockPriceChart, alertShown>>

\* click on the BUY or the SELL tab
TabClicked(action) == TradingEdit(TabClick(trading, action))

\* click on an order type button
OrderTypeClicked(type) == TradingEdit([trading EXCEPT !.orderType = type])

\* input into #tradingQuantity
QuantityInput(value) == TradingEdit(UpdateTradingSummary([trading EXCEPT !.quantity = value]))

\* input into #tradingPrice
PriceInput(value) == TradingEdit(UpdateTradingSummary([trading EXCEPT !.price = value]))

\* another option of #tradingPriceType is chosen (no listener)
PriceTypeChanged(type) == TradingEdit([trading EXCEPT !.priceType = type])

\* another option of #tradingExchange is chosen
ExchangeChanged(exchange) ==
  /\ exchange # trading.exchange
  /\ TradingEdit(ExchangeChange(trading, exchange))

\* click on #tradingSubmitBtn: handleTradingSubmit()
TradingSubmit ==
  /\ alertShown = NoAlert
  /\ trading # NoForm
  /\ alertShown' = HandleTradingSubmit(trading)
  /\ UNCHANGED <<graphVars, searchInput, resultDiv, trading, chartLoads, stockPriceChart>>

\* the user closes the dialog
DismissAlert ==
  /\ alertShown # NoAlert
  /\ alertShown' = NoAlert
  /\ UNCHANGED <<graphVars, searchInput, resultDiv, trading, chartLoads, stockPriceChart>>

\* the page once loadAllData has run and drawMSTGraph has returned early
SearchInit ==
  /\ hasPlaceholder = TRUE
  /\ pc = "nograph"
  /\ mstEdges = <<>>
  /\ recommendations \in RecommendationTables
  /\ graphCanvas = null
  /\ graphCtx = null
  /\ graphNodeList = <<>>
  /\ graphPositions = <<>>
  /\ hoveredNode = null
  /\ handlers = FALSE
  /\ canvasFrame = null
  /\ searchInput = ""
  /\ lastEvent = NoEvent
  /\ resultDiv = BlankResult
  /\ trading = NoForm
  /\ chartLoads = EmptyBag
  /\ stockPriceChart = NoChart
  /\ alertShown = NoAlert

SearchNext ==
  \/ \E value \in SearchInputs : TypeQuery(value)
  \/ SearchClicked
  \/ \E ticker \in CardTickers : CardClicked(ticker)
  \/ \E load \in BagToSet(chartLoads) : \E outcome \in FetchOutcomes : FetchResolves(load, outcome)
  \/ \E load \in BagToSet(chartLoads) : TextResolves(load)

\* searches and the continuations of loadStockPriceChart, the ticket left as
\* searchStock creates it
SearchSpec == SearchInit /\ [][SearchNext]_vars

\* the page once a stock card was clicked and the fetch of the price file
\* has ended with a response that is not ok
TradingInit ==
  /\ hasPlaceholder = TRUE
  /\ pc = "nograph"
  /\ mstEdges = <<>>
  /\ recommendations \in RecommendationTables \ {<<>>}
  /\ graphCanvas = null
  /\ graphCtx = null
  /\ graphNodeList = <<>>
  /\ graphPositions = <<>>
  /\ hoveredNode = null
  /\ handlers = FALSE
  /\ canvasFrame = null
  /\ lastEvent = NoEvent
  /\ \E k \in 1..Len(recommendations) :
        /\ FindStock(recommendations, recommendations[k].ticker) = k
        /\ searchInput = recommendations[k].ticker
        /\ resultDiv = StockResult(recommendations[FindMatch(recommendations, searchInput)])
        /\ trading = TradingInterface(resultDiv.priceNSE)
  /\ chartLoads = EmptyBag
  /\ stockPriceChart = NoChart
  /\ alertShown = NoAlert

TradingNext ==
  \/ \E action \in {"buy", "sell"} : TabClicked(action)
  \/ \E type \in {"delivery", "intraday", "mtf"} : OrderTypeClicked(type)
  \/ \E value \in QuantityInputs : QuantityInput(value)
  \/ \E value \in PriceInputs : PriceInput(value)
  \/ \E type \in {"limit", "market"} : PriceTypeChanged(type)
  \/ \E exchange \in {"BSE", "NSE"} : ExchangeChanged(exchange)
  \/ TradingSubmit
  \/ DismissAlert

\* the handlers of the trading ticket of a search result, no load in flight
TradingSpec == TradingInit /\ [][TradingNext]_vars

\* ================================================================= claims
Nodes == Range(graphNodeList)
HitRadiusSq == (HitRadius * Unit) * (HitRadius * Unit)
\* squared distance between the last pointer position and node n
PointerDistSq(n) ==
  (lastEvent.x - graphPositions[n].x) * (lastEvent.x - graphPositions[n].x)
    + (lastEvent.y - graphPositions[n].y) * (lastEvent.y - graphPositions[n].y)
\* squared distance between nodes m and n
NodeDistSq(m, n) ==
  (graphPositions[m].x - graphPositions[n].x) * (graphPositions[m].x - graphPositions[n].x)
    + (graphPositions[m].y - graphPositions[n].y) * (graphPositions[m].y - graphPositions[n].y)
\* the last pointer-move was exactly at node n's position
PointerAt(n) ==
  /\ lastEvent.type = "mousemove"
  /\ lastEvent.x = graphPositions[n].x
  /\ lastEvent.y = graphPositions[n].y
\* list indices of the nodes within the hit radius of the last pointer position
HitIndices == {i \in 1..Len(graphNodeList) : PointerDistSq(graphNodeList[i]) <= HitRadiusSq}
MaxOf(S) == CHOOSE m \in S : \A k \in S : k <= m

\* C1: a pointer-move whose resolved hit equals the current hoveredNode (both
\* unset included) leaves hoveredNode and the canvas unchanged and issues no
\* repaint; two consecutive pointer-moves resolving to the same node issue at
\* most one repaint between them.
C1_MoveGating ==
  [][ lastEvent'.type = "mousemove" =>
        /\ (lastEvent'.found = hoveredNode =>
              /\ hoveredNode' = hoveredNode
              /\ canvasFrame' = canvasFrame
              /\ lastEvent'.repaints = 0)
        /\ (lastEvent.type = "mousemove" /\ lastEvent.found = lastEvent'.found =>
              lastEvent.repaints + lastEvent'.repaints <= 1) ]_vars

\* a pointer-move resolved to the node already hovered and issued no repaint
C1_Witness ==
  /\ lastEvent.type = "mousemove"
  /\ lastEvent.found # null
  /\ lastEvent.found = lastEvent.before
  /\ lastEvent.repaints = 0

\* C2: a click while Focused(n) invokes the select callback exactly once with
\* n, for every node n; a click while Idle invokes it zero times.
C2_ClickSelectsFocused ==
  lastEvent.type = "click" =>
    lastEvent.selects = IF lastEvent.before # null THEN <<lastEvent.before>> ELSE <<>>

\* C3: hoveredNode is unset or a member of the node list.
C3_HoveredIsNode == hoveredNode = null \/ hoveredNode \in Nodes

\* a node is hovered after a pointer-move that changed the state
C3_Witness ==
  /\ lastEvent.type = "mousemove"
  /\ hoveredNode # null
  /\ lastEvent.before # hoveredNode

\* C4: a pointer-leave, from Focused(n) or from Idle, leaves hoveredNode
\* unset and issues exactly one repaint, which paints the unfocused frame.
C4_LeaveResets ==
  lastEvent.type = "mouseleave" =>
    /\ hoveredNode = null
    /\ lastEvent.repaints = 1
    /\ canvasFrame = Frame(null)

\* the pointer left while no node was hovered
C4_Witness == lastEvent.type = "mouseleave" /\ lastEvent.before = null

\* C5 as claimed: a pointer-move exactly at node n's position leaves the
\* controller in Focused(n).
C5_CentreFocusesNode == \A n \in Nodes : PointerAt(n) => hoveredNode = n

\* C5 as amended: a pointer-move exactly at node n's position leaves the
\* controller in Focused(m) where m is n or a node after n in the node list
\* that lies within the hit radius of n's position; m is n when no other
\* node lies within the hit radius of n's position.
C5_CentreFocusesNodeOrLater ==
  \A n \in Nodes :
    PointerAt(n) =>
      /\ hoveredNode \in Nodes
      /\ IndexOf(graphNodeList, hoveredNode) >= IndexOf(graphNodeList, n)
      /\ NodeDistSq(hoveredNode, n) <= HitRadiusSq
      /\ ((\A m \in Nodes \ {n} : NodeDistSq(m, n) > HitRadiusSq) => hoveredNode = n)

\* the pointer is at the centre of a node of a graph of several nodes, and
\* that node is focused
C5_Witness ==
  /\ Len(graphNodeList) > 1
  /\ \E n \in Nodes : PointerAt(n) /\ hoveredNode = n /\ lastEvent.before # n

\* C6: after a pointer-move the state is Idle exactly when no node lies
\* within distance 20 (inclusive) of the pointer position.
C6_IdleIffNoNodeInRadius ==
  lastEvent.type = "mousemove" =>
    (hoveredNode = null <=> \A n \in Nodes : PointerDistSq(n) > HitRadiusSq)

\* a pointer-move at distance exactly 20 of a node focused a node, and one
\* farther than 20 from every node left a focused state for Idle
C6_Witness ==
  /\ lastEvent.type = "mousemove"
  /\ \/ /\ hoveredNode # null
        /\ \E n \in Nodes : PointerDistSq(n) = HitRadiusSq
        /\ \A n \in Nodes : PointerDistSq(n) >= HitRadiusSq
     \/ /\ hoveredNode = null
        /\ lastEvent.before # null
        /\ \A n \in Nodes : PointerDistSq(n) > HitRadiusSq

\* C7: when the pointer position is within the hit radius of several nodes,
\* the resolved hit is the one that comes last in the node list.
C7_LastHitWins ==
  lastEvent.type = "mousemove" /\ HitIndices # {} =>
    /\ lastEvent.found = graphNodeList[MaxOf(HitIndices)]
    /\ hoveredNode = graphNodeList[MaxOf(HitIndices)]

\* several nodes are hit, the last of them is not the closest, and another
\* of them was hovered before
C7_Witness ==
  /\ lastEvent.type = "mousemove"
  /\ Cardinality(HitIndices) >= 2
  /\ \E i \in HitIndices :
       /\ i < MaxOf(HitIndices)
       /\ PointerDistSq(graphNodeList[i]) < PointerDistSq(graphNodeList[MaxOf(HitIndices)])
       /\ lastEvent.before = graphNodeList[i]

\* the endpoints of the edge list, u before v, edge by edge
Endpoints == [j \in 1..(2 * Len(mstEdges)) |->
                IF j % 2 = 1 THEN mstEdges[(j + 1) \div 2].u ELSE mstEdges[j \div 2].v]
\* where node n first occurs among the endpoints
FirstOccurrence(n) == CHOOSE j \in 1..Len(Endpoints) :
                        Endpoints[j] = n /\ \A k \in 1..(j - 1) : Endpoints[k] # n
\* the state drawMSTGraph leaves when it has built the view
ViewBuilt == pc = "ready" /\ lastEvent.type = "draw"

\* C8: the node list built by drawMSTGraph holds exactly the endpoints of
\* the edge list, each once, in order of first occurrence.
C8_NodeListIsEndpoints ==
  ViewBuilt =>
    /\ Nodes = Range(Endpoints)
    /\ Cardinality(Nodes) = Len(graphNodeList)
    /\ \A i \in 1..(Len(graphNodeList) - 1) :
         FirstOccurrence(graphNodeList[i]) < FirstOccurrence(graphNodeList[i + 1])

\* the view is built from an edge list with a self-loop and a repeated row
C8_Witness ==
  /\ ViewBuilt
  /\ \E i \in 1..Len(mstEdges) : mstEdges[i].u = mstEdges[i].v
  /\ \E i, j \in 1..Len(mstEdges) : i # j /\ mstEdges[i] = mstEdges[j]

\* the vector from the surface centre to the i-th node
Radial(i) == [x |-> graphPositions[graphNodeList[i]].x - centerX,
              y |-> graphPositions[graphNodeList[i]].y - centerY]
Dot(a, b) == a.x * b.x + a.y * b.y
Cross(a, b) == a.x * b.y - a.y * b.x
\* the node after the i-th around the circle
NextIndex(i) == (i % Len(graphNodeList)) + 1
\* what a rounding of each coordinate by one fixed-point step adds to a product
RoundingSlack == 4 * radius

\* C9: drawMSTGraph gives the N nodes N pairwise distinct positions on the
\* circle of the fixed radius around the surface centre, the first at angle
\* 0 and each following one the same angular step further, in the same
\* direction, the step from the last back to the first included.
C9_EquallySpacedOnCircle ==
  ViewBuilt =>
    LET N == Len(graphNodeList) IN
    /\ N >= 1
    /\ DOMAIN graphPositions = Nodes
    /\ Radial(1) = [x |-> radius, y |-> 0]
    /\ \A i \in 1..N : Abs(Dot(Radial(i), Radial(i)) - radius * radius) <= RoundingSlack
    /\ \A i \in 1..N :
         /\ Abs(Dot(Radial(i), Radial(NextIndex(i))) - Dot(Radial(1), Radial(NextIndex(1))))
              <= 2 * RoundingSlack
         /\ Abs(Cross(Radial(i), Radial(NextIndex(i))) - Cross(Radial(1), Radial(NextIndex(1))))
              <= 2 * RoundingSlack
         /\ Cross(Radial(i), Radial(NextIndex(i))) >= -RoundingSlack
    /\ Cardinality({graphPositions[n] : n \in Nodes}) = N

\* a view of at least three nodes has been built
C9_Witness == ViewBuilt /\ Len(graphNodeList) >= 3

\* C10: with an empty edge list drawMSTGraph creates no canvas, paints
\* nothing, installs no listener, and hoveredNode stays unset.
C10_EmptyEdgeListNoOp ==
  pc \in {"ready", "nograph"} /\ Len(mstEdges) = 0 =>
    /\ pc = "nograph"
    /\ graphCanvas = null
    /\ ~handlers
    /\ canvasFrame = null
    /\ graphNodeList = <<>>
    /\ hoveredNode = null
    /\ lastEvent = NoEvent

\* drawMSTGraph ran on an empty edge list although the placeholder exists
C10_Witness == pc = "nograph" /\ hasPlaceholder /\ Len(mstEdges) = 0 /\ graphCanvas = null

\* C11: a repaint is deterministic and idempotent: what the surface shows
\* after a repaint is what redrawGraph paints on a new, empty surface for the
\* same edge list, positions, classifications and hoveredNode, whatever was
\* painted before and whatever drawing state the previous repaint left; a
\* repaint with an unchanged hoveredNode leaves the surface as it was
C11_RepaintDeterministic ==
  /\ []((pc = "ready" /\ lastEvent.repaints > 0) => canvasFrame = Frame(hoveredNode))
  /\ [][(pc = "ready" /\ lastEvent'.repaints > 0 /\ hoveredNode' = hoveredNode)
          => canvasFrame' = canvasFrame]_vars

\* a repaint with a focus over a surface that showed another focus, with a
\* drawing state that is no longer the initial one
C11_Witness ==
  /\ pc = "ready"
  /\ lastEvent.type = "mousemove" /\ lastEvent.repaints = 1
  /\ lastEvent.before # null /\ lastEvent.found # null
  /\ graphCtx # DefaultContext
  /\ canvasFrame = Frame(hoveredNode)
  /\ canvasFrame # Frame(lastEvent.before)

\* the operations on the surface that are of the given kind and part
OpsOf(op, part) ==
  {k \in 1..Len(canvasFrame) : canvasFrame[k].op = op /\ canvasFrame[k].part = part}
\* the edge an edge operation belongs to
EdgeOf(k) == mstEdges[canvasFrame[k].id[2]]

\* C12: the label of every drawn edge is the edge's distance when the
\* distance is a non-zero number and the edge's correlation otherwise, both
\* with two decimals, and every edge line has its label (it is never blank)
C12_EdgeLabelValue ==
  pc = "ready" =>
    /\ \A k \in OpsOf("fillText", "edge") :
         canvasFrame[k].text =
           ToFixed2(IF EdgeOf(k).distance # 0 THEN EdgeOf(k).distance ELSE EdgeOf(k).corr)
    /\ \A k \in OpsOf("stroke", "edge") :
         /\ k + 2 <= Len(canvasFrame)
         /\ canvasFrame[k + 2].op = "fillText"
         /\ canvasFrame[k + 2].id = canvasFrame[k].id
         /\ canvasFrame[k + 2].text # ""

\* an edge with distance 0 and correlation 0.42 is labelled 0.42, and an
\* edge with a distance is labelled with it
C12_Witness ==
  /\ pc = "ready"
  /\ \E k \in OpsOf("fillText", "edge") :
       /\ EdgeOf(k).distance = 0 /\ EdgeOf(k).corr = 420
       /\ canvasFrame[k].text = "0.42"
  /\ \E k \in OpsOf("fillText", "edge") :
       /\ EdgeOf(k).distance = 300 /\ EdgeOf(k).corr = 800
       /\ canvasFrame[k].text = "0.30"

\* C13: in every repaint an edge is drawn highlighted (opacity 1.0, line
\* width 3) if and only if hoveredNode is set and is one of its endpoints;
\* every other edge has the base width 2 and the opacity max(0.3, |corr|)
C13_HighlightIffEndpointFocused ==
  pc = "ready" =>
    \A k \in OpsOf("stroke", "edge") :
      IF hoveredNode # null /\ (EdgeOf(k).u = hoveredNode \/ EdgeOf(k).v = hoveredNode)
      THEN canvasFrame[k].style[2] = WeightScale /\ canvasFrame[k].lineWidth = 3
      ELSE /\ canvasFrame[k].style[2] = Max((3 * WeightScale) \div 10, Abs(EdgeOf(k).corr))
           /\ canvasFrame[k].lineWidth = 2

\* the surface as redrawGraph paints it: the first operation clears the
\* whole surface
Cleared ==
  /\ Len(canvasFrame) > 0
  /\ canvasFrame[1].op = "clearRect"
  /\ canvasFrame[1].at = <<0, 0>>
  /\ canvasFrame[1].extent = <<CanvasWidth * Unit, CanvasHeight * Unit>>
\* the layer an operation belongs to
Layer(k) ==
  CASE canvasFrame[k].part = "surface" -> 0
    [] canvasFrame[k].part = "edge" -> 1
    [] canvasFrame[k].part \in {"node", "info"} -> 2
    [] canvasFrame[k].part = "legend" -> 3

\* C14: within a repaint the surface is cleared first, then come all edges,
\* each edge's line before its label patch and its label text, then all
\* nodes, then the legend; no edge is painted after a node
C14_PaintOrder ==
  pc = "ready" =>
    /\ Cleared
    /\ \A k \in 2..Len(canvasFrame) : canvasFrame[k].op # "clearRect"
    /\ \A k \in 1..(Len(canvasFrame) - 1) : Layer(k) <= Layer(k + 1)
    /\ \A k \in OpsOf("fillRect", "edge") :
         /\ canvasFrame[k - 1].op = "stroke" /\ canvasFrame[k - 1].id = canvasFrame[k].id
         /\ canvasFrame[k + 1].op = "fillText" /\ canvasFrame[k + 1].id = canvasFrame[k].id
    /\ \A k \in OpsOf("fillText", "edge") : canvasFrame[k - 1].op = "fillRect"
    /\ \A k \in OpsOf("stroke", "edge") \ {2} :
         canvasFrame[k - 1].op = "fillText" /\ canvasFrame[k - 1].part = "edge"
    /\ Layer(Len(canvasFrame)) = 3

\* a repaint with two edges, three nodes and the detail lines of a focused node
C14_Witness ==
  /\ pc = "ready"
  /\ Cardinality(OpsOf("stroke", "edge")) = 2
  /\ Cardinality(OpsOf("fill", "node")) = 3
  /\ OpsOf("fillText", "info") # {}
  /\ Cardinality(OpsOf("fill", "legend")) = 3

\* C15: after every handler has returned, the focus the surface shows is the
\* current hoveredNode: the node painted enlarged, if any, is hoveredNode,
\* and no node is painted enlarged while hoveredNode is null
C15_SurfaceShowsCurrentFocus ==
  pc = "ready" =>
    \A k \in OpsOf("fill", "node") :
      (canvasFrame[k].extent = <<20 * Unit, 20 * Unit>>) <=> (canvasFrame[k].id[1] = hoveredNode)

\* the focus went from one node to another in a pointer move, and the surface
\* shows the new one
C15_Witness ==
  /\ pc = "ready"
  /\ lastEvent.type = "mousemove" /\ lastEvent.repaints = 1
  /\ lastEvent.before # null /\ hoveredNode # null /\ hoveredNode # lastEvent.before
  /\ \E k \in OpsOf("fill", "node") :
       canvasFrame[k].id[1] = hoveredNode /\ canvasFrame[k].extent = <<20 * Unit, 20 * Unit>>

\* C16: once the view is built, no pointer move, pointer leave, click or
\* repaint changes the node list or the positions, and every node has
\* exactly one position
C16_LayoutFrozen ==
  [][pc = "ready" => /\ graphNodeList' = graphNodeList
                     /\ graphPositions' = graphPositions
                     /\ DOMAIN graphPositions' = Range(graphNodeList')]_vars

\* a click after a repaint with a focus: the layout is still the one of the build
C16_Witness ==
  /\ pc = "ready"
  /\ lastEvent.type = "click" /\ hoveredNode # null
  /\ canvasFrame = Frame(hoveredNode)
  /\ graphNodeList = CollectNodes(mstEdges, 1, <<>>)
  /\ graphPositions = Layout(graphNodeList)

\* C17: in every repaint both endpoints of every edge have a position, the
\* edge is not skipped, and its line runs from the position of u to the
\* position of v; self-loops and repeated pairs are drawn like any other edge
C17_EveryEdgeDrawn ==
  pc = "ready" =>
    /\ Cardinality(OpsOf("stroke", "edge")) = Len(mstEdges)
    /\ \A i \in 1..Len(mstEdges) :
         /\ mstEdges[i].u \in DOMAIN graphPositions
         /\ mstEdges[i].v \in DOMAIN graphPositions
         /\ 3 * i - 1 <= Len(canvasFrame)
         /\ canvasFrame[3 * i - 1].op = "stroke"
         /\ canvasFrame[3 * i - 1].id = EdgeId(i)
         /\ canvasFrame[3 * i - 1].at =
              <<graphPositions[mstEdges[i].u].x, graphPositions[mstEdges[i].u].y>>
         /\ canvasFrame[3 * i - 1].extent =
              <<graphPositions[mstEdges[i].v].x, graphPositions[mstEdges[i].v].y>>

\* a self-loop and a repeated pair are both on the surface
C17_Witness ==
  /\ pc = "ready"
  /\ Len(mstEdges) = 2
  /\ mstEdges[1].u = mstEdges[1].v
  /\ mstEdges[2] = mstEdges[1]
  /\ \E k \in OpsOf("stroke", "edge") : canvasFrame[k].at = canvasFrame[k].extent
  /\ Cardinality(OpsOf("stroke", "edge")) = 2

\* the label of the first recommendation row of a node, "" when there is none
Classification(node) ==
  LET rows == {k \in 1..Len(recommendations) : recommendations[k].ticker = node}
  IN  IF rows = {} THEN ""
      ELSE recommendations[CHOOSE k \in rows : \A m \in rows : k <= m].label

\* C18: the fill colour of a node is green for BUY, red for AVOID and grey in
\* every other case (HOLD, another label, no recommendation row); every node
\* is painted, with or without a row, and the two detail lines are painted
\* only for a node that has a row
C18_NodeColourTotal ==
  pc = "ready" =>
    /\ \A k \in OpsOf("fill", "node") :
         canvasFrame[k].style =
           CASE Classification(canvasFrame[k].id[1]) = "BUY" -> <<"#3fb950", WeightScale>>
             [] Classification(canvasFrame[k].id[1]) = "AVOID" -> <<"#f85149", WeightScale>>
             [] OTHER -> <<"#8b949e", WeightScale>>
    /\ Cardinality(OpsOf("fill", "node")) = Len(graphNodeList)
    /\ \A k \in OpsOf("fillText", "info") :
         \E m \in 1..Len(recommendations) : recommendations[m].ticker = canvasFrame[k].id[1]
    /\ Layer(Len(canvasFrame)) = 3 /\ Cardinality(OpsOf("fill", "legend")) = 3

\* a node without a recommendation row has the focus while another node is
\* classified BUY
C18_Witness ==
  /\ pc = "ready"
  /\ hoveredNode # null
  /\ \A m \in 1..Len(recommendations) : recommendations[m].ticker # hoveredNode
  /\ \E k \in OpsOf("fill", "node") :
       canvasFrame[k].id[1] = hoveredNode /\ canvasFrame[k].style = <<"#8b949e", WeightScale>>
  /\ \E k \in OpsOf("fill", "node") : canvasFrame[k].style = <<"#3fb950", WeightScale>>
  /\ OpsOf("fillText", "info") = {}

\* two pointer events are at the same point of the displayed surface
SameSurfacePoint(a, b) ==
  /\ (a.clientX - a.rect.left) * b.rect.width = (b.clientX - b.rect.left) * a.rect.width
  /\ (a.clientY - a.rect.top) * b.rect.height = (b.clientY - b.rect.top) * a.rect.height

\* C19: the pointer position is hit-tested at the point that lies at the
\* same fraction of the intrinsic size as the pointer lies of the displayed
\* size, measured from the displayed origin; pointer moves at the same point
\* of the displayed surface resolve the same node at every displayed size
C19_ScaleInvariantHitTest ==
  /\ [](lastEvent.type = "mousemove" =>
          /\ lastEvent.x * lastEvent.rect.width
               <= (lastEvent.clientX - lastEvent.rect.left) * CanvasWidth
          /\ (lastEvent.clientX - lastEvent.rect.left) * CanvasWidth
               < (lastEvent.x + 1) * lastEvent.rect.width
          /\ lastEvent.y * lastEvent.rect.height
               <= (lastEvent.clientY - lastEvent.rect.top) * CanvasHeight
          /\ (lastEvent.clientY - lastEvent.rect.top) * CanvasHeight
               < (lastEvent.y + 1) * lastEvent.rect.height)
  /\ [][(/\ lastEvent.type = "mousemove" /\ lastEvent'.type = "mousemove"
         /\ SameSurfacePoint(lastEvent, lastEvent'))
          => lastEvent'.found = lastEvent.found]_vars

\* a pointer move over the surface displayed at half its size, at the point
\* where a node is centred, resolves that node
C19_Witness ==
  /\ pc = "ready"
  /\ lastEvent.type = "mousemove"
  /\ lastEvent.rect.width # CanvasWidth
  /\ lastEvent.found # null
  /\ (lastEvent.clientX - lastEvent.rect.left) * CanvasWidth
       = graphPositions[lastEvent.found].x * lastEvent.rect.width
  /\ (lastEvent.clientY - lastEvent.rect.top) * CanvasHeight
       = graphPositions[lastEvent.found].y * lastEvent.rect.height

\* C20: a click leaves hoveredNode and the surface as they are and issues no
\* repaint, whether or not it invokes the select callback
C20_ClickKeepsInteractionState ==
  [][lastEvent'.type = "click"
       => /\ hoveredNode' = hoveredNode
          /\ canvasFrame' = canvasFrame
          /\ graphCtx' = graphCtx
          /\ lastEvent'.repaints = 0]_vars

\* after a click that invoked the select callback the focus is still there
C20_Witness ==
  /\ pc = "ready"
  /\ lastEvent.type = "click"
  /\ lastEvent.selects = <<hoveredNode>>
  /\ searchInput = hoveredNode
  /\ canvasFrame = Frame(hoveredNode)
\* the chart a call of loadStockPriceChart(ticker) draws when nothing else
\* runs: NoChart when it returns before drawStockPriceChart
ChartBuiltFor(ticker) ==
  LET priceData == LoadedPriceData(PriceFile(ticker))
  IN  IF Len(priceData) = 0 THEN NoChart ELSE NewChart(priceData)

\* C21: once no call of loadStockPriceChart is in flight, a price chart that
\* the search result shows is the one built from the price data of the ticker
\* searched last; a load started by an earlier search never replaces it.
C21_ChartOfLatestSearch ==
  (BagCardinality(chartLoads) = 0 /\ resultDiv.chart # NoChart)
    => resultDiv.chart = ChartBuiltFor(resultDiv.ticker)

\* the ticket is acceptable: a quantity above 0, and a price above 0 unless
\* the order is a market order (a blank input is no number above 0)
Acceptable(form) ==
  /\ form.quantity # NaN /\ form.quantity > 0
  /\ (form.price # NaN /\ form.price > 0) \/ form.priceType = "market"

IsConfirmation(alert) == alert.text \in {"Buy order placed!", "Sell order placed!"}
IsValidation(alert) ==
  alert.text \in {"Please enter a valid quantity", "Please enter a valid price"}

\* C22: submitting the trading ticket opens the order-placed confirmation
\* exactly when the quantity is above 0 and the price is above 0 or the price
\* type is market; otherwise it opens a validation message; either way the
\* controls of the ticket and the rest of the search result stay as they are.
C22_SubmitValidates ==
  [][(alertShown = NoAlert /\ alertShown' # NoAlert) =>
       /\ IsConfirmation(alertShown') <=> Acceptable(trading)
       /\ ~Acceptable(trading) => IsValidation(alertShown')
       /\ UNCHANGED <<trading, resultDiv, searchInput, chartLoads, stockPriceChart>>]_vars

\* a market order without a price was confirmed
C22_Witness ==
  /\ IsConfirmation(alertShown)
  /\ trading.priceType = "market"
  /\ ParseFloatOrZero(trading.price) <= 0
  /\ alertShown.details[5] = ParseFloatOrZero(trading.price)

====
